---- MODULE Spec2Model ----
(***************************************************************************)
(* A model of the audio-disc burner: the in-memory playlist of AppState,   *)
(* the burn pipeline playlist_burn (worker thread, the two wodim output    *)
(* reader threads, the mpsc progress channel) and the two consumers of the *)
(* channel, the shell's blocking loop and the TUI's per-frame poller.      *)
(***************************************************************************)
EXTENDS Integers, Sequences, FiniteSets, TLC

(***************************************************************************)
(* Program constants and the library the songs come from.                  *)
(***************************************************************************)

\* app.rs:11  const CD_MAX_DURATION_SECONDS: u64 = 4799
CD_MAX_DURATION_SECONDS == 4799

\* duration_sec is a u64: sums are taken modulo the word size.  The model
\* checker's integers are 32 bits wide, so the 64-bit word is scaled to 30
\* bits, which keeps what matters to the capacity check: the budget is far
\* below the signed maximum, and the signed maximum is half the word.
U64 == 2 ^ 30

\* The largest INTEGER a row of library.db can hold (SQLite integers are
\* signed: half the unsigned range); track_from_row reads duration_sec from
\* such a row.
I64Max == U64 \div 2 - 1

\* The tracks of library.db, as track_from_row yields them: Song values
\* reduced to the two fields the playlist and the pipeline read (id,
\* duration_sec).  Two tracks fit on a disc in several combinations, one
\* fills an empty disc to the second, one is a second too long for it, one
\* has the largest duration a row can store.
Library ==
    { [id |-> 1, duration_sec |-> 1500],
      [id |-> 2, duration_sec |-> 1700],
      [id |-> 3, duration_sec |-> 4799],
      [id |-> 4, duration_sec |-> 4800],
      [id |-> 5, duration_sec |-> I64Max] }

\* Largest index the shell or the playlist pane is made to pass to
\* playlist_remove (indices are 0-based, as in the code).
MaxIndex == 3

VARIABLES
    mode,        \* "shell" (run_shell) or "tui" (run_tui): which front end runs;
                 \* "calls": AppState used directly, without a front end
    fpc,         \* position of the foreground thread
    playlist,    \* AppState.playlist
    last,        \* the last direct call: its argument, result and pre-state
    tableState,  \* View.playlist, the playlist table's selection: an
                 \* Option<usize>, << >> for None and << i >> for Some(i)
    snapshot,    \* the Vec<Song> moved into the worker thread by burn()
    wpc,         \* position of the worker thread inside playlist_burn
    wret,        \* the worker thread's return value (Result<()>)
    songIdx,     \* position of `for song in &playlist` (0-based)
    downsampled, \* keys of the downsampled_paths HashMap
    scratch,     \* the TempDir: "none", "live", "removed", "leaked"
    sent,        \* every message successfully sent on the channel, in order
    nrecv,       \* how many of them the receiver has taken
    rxAlive,     \* the Receiver has not been dropped
    handle,      \* the worker's JoinHandle: "none", "held", "joined", "dropped"
    wodim,       \* the wodim child: "none", "running", "exit0", "exit1"
    pipe,        \* lines of wodim output not yet read, per stream
    rpc,         \* position of each reader thread: "none", "run", "done"
    rret,        \* each reader thread's return value
    ffmpegRuns,  \* ids the Transcoder was invoked for, in order
    normalizeRuns, \* how many times the Normalizer was invoked
    wodimArgs,   \* file lists the Writer was spawned with, in order
    logs,        \* what the consumer has shown: BurnPhase logs / printed lines
    completed    \* BurnPhase::Burning.completed

vars ==
    << mode, fpc, playlist, last, tableState, snapshot, wpc, wret, songIdx,
       downsampled, scratch, sent, nrecv, rxAlive, handle, wodim, pipe, rpc, rret,
       ffmpegRuns, normalizeRuns, wodimArgs, logs, completed >>

fgVars == << mode, fpc, playlist, last, tableState >>

jobVars ==
    << snapshot, wpc, wret, songIdx, downsampled, scratch, sent, nrecv,
       rxAlive, handle, wodim, pipe, rpc, rret, ffmpegRuns, normalizeRuns,
       wodimArgs, logs, completed >>

Streams == {"stdout", "stderr"}

(***************************************************************************)
(* The playlist model (AppState).                                          *)
(***************************************************************************)

RECURSIVE FoldDuration(_, _)
FoldDuration(acc, songs) ==
    IF songs = << >> THEN acc
    ELSE FoldDuration((acc + Head(songs).duration_sec) % U64, Tail(songs))

\* playlist.iter().fold(0u64, |acc, s| acc + s.duration_sec)
playlist_duration_secs(songs) == FoldDuration(0, songs)

\* Vec::swap_remove(index): the last entry takes the removed one's place.
VecSwapRemove(v, index) ==
    [k \in 1 .. Len(v) - 1 |-> IF k = index + 1 THEN v[Len(v)] ELSE v[k]]

\* Vec::remove(index), index 0-based: the later entries shift left.
VecRemove(v, index) ==
    [k \in 1 .. Len(v) - 1 |-> IF k <= index THEN v[k] ELSE v[k + 1]]

\* A capacity check that forgets what the playlist already holds.
AddExceedsSongOnly(pl, song) == song.duration_sec > CD_MAX_DURATION_SECONDS

\* A capacity check that also turns away a playlist filled to the second.
AddExceedsOrFills(pl, song) ==
    (playlist_duration_secs(pl) + song.duration_sec) % U64
        >= CD_MAX_DURATION_SECONDS

\* app.rs:189  the condition under which playlist_add bails.
AddExceeds(pl, song) ==
    (playlist_duration_secs(pl) + song.duration_sec) % U64
        > CD_MAX_DURATION_SECONDS

\* playlist_add(song) on the playlist pl: whether it returns Ok, and the
\* playlist it leaves.
AddResult(pl, song) ==
    IF AddExceeds(pl, song)
    THEN [ok |-> FALSE, playlist |-> pl]
    ELSE [ok |-> TRUE, playlist |-> Append(pl, song)]

\* playlist_remove(index) on the playlist pl: the bool it returns, and the
\* playlist it leaves.
RemoveResult(pl, index) ==
    IF index >= Len(pl)
    THEN [ok |-> FALSE, playlist |-> pl]
    ELSE [ok |-> TRUE, playlist |-> VecRemove(pl, index)]

\* The foreground is where a playlist command can be given: the shell's
\* prompt, or the TUI's BuildingPlaylist phase.
AtPrompt == fpc \in {"prompt", "building"}

\* `playlist add <ID>` of the shell, Enter on a track in the TUI.
playlist_add(song) ==
    /\ AtPrompt
    /\ playlist' = AddResult(playlist, song).playlist
    /\ UNCHANGED << mode, fpc, last, tableState >>
    /\ UNCHANGED jobVars

\* Backspace in the TUI's playlist pane; the shell has no remove command.
playlist_remove(index) ==
    /\ fpc = "building"
    /\ playlist' = RemoveResult(playlist, index).playlist
    /\ UNCHANGED << mode, fpc, last, tableState >>
    /\ UNCHANGED jobVars

\* `playlist clear` of the shell, 'C' in the TUI's playlist pane.
playlist_clear ==
    /\ AtPrompt
    /\ playlist' = << >>
    /\ UNCHANGED << mode, fpc, last, tableState >>
    /\ UNCHANGED jobVars

NoSong == [id |-> 0, duration_sec |-> 0]

\* The three operations called directly on an AppState, each call recorded
\* with its argument, its result and the playlist it was made on.
Call_playlist_add(song) ==
    /\ mode = "calls"
    /\ playlist' = AddResult(playlist, song).playlist
    /\ last' = [op |-> "add", song |-> song, index |-> 0,
                ok |-> AddResult(playlist, song).ok, pre |-> playlist]
    /\ UNCHANGED << mode, fpc, tableState >>
    /\ UNCHANGED jobVars

Call_playlist_remove(index) ==
    /\ mode = "calls"
    /\ playlist' = RemoveResult(playlist, index).playlist
    /\ last' = [op |-> "remove", song |-> NoSong, index |-> index,
                ok |-> RemoveResult(playlist, index).ok, pre |-> playlist]
    /\ UNCHANGED << mode, fpc, tableState >>
    /\ UNCHANGED jobVars

Call_playlist_clear ==
    /\ mode = "calls"
    /\ playlist' = << >>
    /\ last' = [op |-> "clear", song |-> NoSong, index |-> 0, ok |-> TRUE,
                pre |-> playlist]
    /\ UNCHANGED << mode, fpc, tableState >>
    /\ UNCHANGED jobVars

\* The mathematical sum of the durations, without the u64 width.
RECURSIVE SumDuration(_)
SumDuration(songs) ==
    IF songs = << >> THEN 0
    ELSE Head(songs).duration_sec + SumDuration(Tail(songs))

\* Songs with durations over the whole of the u64 range, which playlist_add
\* takes by its signature (Song is a public struct, duration_sec a u64):
\* the largest value, and values that a playlist within the budget carries
\* past the word size.
U64Songs ==
    { [id |-> 6, duration_sec |-> U64 - 1],
      [id |-> 7, duration_sec |-> U64 - 1500],
      [id |-> 8, duration_sec |-> U64 - CD_MAX_DURATION_SECONDS] }

\* app.rs:189  whether the unchecked `+` of the capacity check overflows.
AddOverflows(pl, song) ==
    playlist_duration_secs(pl) + song.duration_sec >= U64

\* What an overflowing `+` does depends on the build: with overflow checks
\* (the dev profile) it panics, without them (the release profile) it wraps.
BuildOutcomes == {"checked", "wrapping"}

\* playlist_add called directly with any Song, on a playlist within the
\* budget, the call recorded as by Call_playlist_add; a panic is recorded as
\* the call's outcome and ends the caller.
Call_playlist_add_u64(song) ==
    /\ mode = "calls"
    /\ fpc = "calls"
    /\ SumDuration(playlist) <= CD_MAX_DURATION_SECONDS
    /\ \E build \in BuildOutcomes :
         IF AddOverflows(playlist, song) /\ build = "checked"
         THEN /\ last' = [op |-> "add_panic", song |-> song, index |-> 0,
                          ok |-> FALSE, pre |-> playlist]
              /\ fpc' = "panicked"
              /\ UNCHANGED playlist
         ELSE /\ playlist' = AddResult(playlist, song).playlist
              /\ last' = [op |-> "add", song |-> song, index |-> 0,
                          ok |-> AddResult(playlist, song).ok, pre |-> playlist]
              /\ UNCHANGED fpc
    /\ UNCHANGED << mode, tableState >>
    /\ UNCHANGED jobVars

(***************************************************************************)
(* The playlist pane of the full-screen view (view.rs).                    *)
(***************************************************************************)

\* Option<usize>.
None == << >>
Some(i) == << i >>

\* usize::MAX, at the width of U64.
USizeMax == U64 - 1

\* The largest selection the model follows: Down on a selection that is
\* already past the end moves it one further each time, and Up from
\* usize::MAX one back each time.
MaxSelected == 4

\* The selections the model follows.
Followed(i) == i <= MaxSelected \/ i = USizeMax

\* WrappingTableState::next: the index it selects and returns.  i + 1 is
\* at most items.len() unless the selection was out of range; it overflows
\* only from usize::MAX, which only a build with wrapping arithmetic reaches.
next(st, len) ==
    IF st = None THEN 0
    ELSE LET i == (st[1] + 1) % U64
         IN  IF i = len THEN 0 ELSE i

\* WrappingTableState::prev computes items.len() - 1 on an empty slice.
PrevUnderflows(st, len) == st = Some(0) /\ len = 0

\* WrappingTableState::prev: the index it selects and returns, the
\* subtraction at the width of usize.
prev(st, len) ==
    IF st = None THEN 0
    ELSE IF st[1] >= 1 THEN st[1] - 1
    ELSE (len + U64 - 1) % U64

\* WrappingTableState::selected
selected(st) == IF st = None THEN 0 ELSE st[1]

\* What drawing the table does to the selection it is handed (&mut): the
\* widget belongs to the terminal library, which either leaves the
\* selection as it is (nothing to draw into, or a version that only reads
\* it) or brings a selection past the last row back to the last row.
RenderOutcomes == {"kept", "clamped"}

render(st, len, outcome) ==
    IF outcome = "clamped" /\ st # None /\ st[1] >= len
    THEN Some(IF len = 0 THEN 0 ELSE len - 1)
    ELSE st

\* run_app in BuildingPlaylist, one of the three panes active.
InPane(pane) == mode = "tui" /\ fpc = pane

\* One pass of run_app's loop in BuildingPlaylist: draw, then handle the
\* key.  Right: Artists -> ArtistTracks.
Key_Right_Artists ==
    /\ InPane("artists_pane")
    /\ fpc' = "tracks_pane"
    /\ \E o \in RenderOutcomes :
         tableState' = render(tableState, Len(playlist), o)
    /\ last' = [op |-> "right", song |-> NoSong, index |-> 0, ok |-> TRUE,
                pre |-> playlist]
    /\ UNCHANGED << mode, playlist >>
    /\ UNCHANGED jobVars

\* Left: ArtistTracks -> Artists.
Key_Left_Tracks ==
    /\ InPane("tracks_pane")
    /\ fpc' = "artists_pane"
    /\ \E o \in RenderOutcomes :
         tableState' = render(tableState, Len(playlist), o)
    /\ last' = [op |-> "left", song |-> NoSong, index |-> 0, ok |-> TRUE,
                pre |-> playlist]
    /\ UNCHANGED << mode, playlist >>
    /\ UNCHANGED jobVars

\* Right: ArtistTracks -> Playlist, selecting Some(selected()).
Key_Right_Tracks ==
    /\ InPane("tracks_pane")
    /\ fpc' = "playlist_pane"
    /\ \E o \in RenderOutcomes :
         LET st == render(tableState, Len(playlist), o)
         IN  /\ tableState' = Some(selected(st))
             /\ last' = [op |-> "right", song |-> NoSong,
                         index |-> selected(st), ok |-> TRUE,
                         pre |-> playlist]
    /\ UNCHANGED << mode, playlist >>
    /\ UNCHANGED jobVars

\* Enter in ArtistTracks: add_current_track, with the track under the
\* cursor.
Key_Enter(song) ==
    /\ InPane("tracks_pane")
    /\ playlist' = AddResult(playlist, song).playlist
    /\ \E o \in RenderOutcomes :
         tableState' = render(tableState, Len(playlist), o)
    /\ last' = [op |-> "add", song |-> song, index |-> 0,
                ok |-> AddResult(playlist, song).ok, pre |-> playlist]
    /\ UNCHANGED << mode, fpc >>
    /\ UNCHANGED jobVars

\* Left: Playlist -> ArtistTracks.
Key_Left_Playlist ==
    /\ InPane("playlist_pane")
    /\ fpc' = "tracks_pane"
    /\ \E o \in RenderOutcomes :
         tableState' = render(tableState, Len(playlist), o)
    /\ last' = [op |-> "left", song |-> NoSong, index |-> 0, ok |-> TRUE,
                pre |-> playlist]
    /\ UNCHANGED << mode, playlist >>
    /\ UNCHANGED jobVars

\* Up in the Playlist pane: view.playlist.prev(view.state.playlist()).  The
\* underflow of items.len() - 1 panics in a build with overflow checks and
\* wraps in one without.
Key_Up ==
    /\ InPane("playlist_pane")
    /\ \E o \in RenderOutcomes, build \in BuildOutcomes :
         LET st == render(tableState, Len(playlist), o)
         IN  IF PrevUnderflows(st, Len(playlist)) /\ build = "checked"
             THEN /\ fpc' = "panicked"
                  /\ tableState' = st
                  /\ last' = [op |-> "prev_panic", song |-> NoSong,
                              index |-> 0, ok |-> FALSE, pre |-> playlist]
             ELSE /\ Followed(prev(st, Len(playlist)))
                  /\ tableState' = Some(prev(st, Len(playlist)))
                  /\ last' = [op |-> "prev", song |-> NoSong,
                              index |-> prev(st, Len(playlist)),
                              ok |-> TRUE, pre |-> playlist]
                  /\ UNCHANGED fpc
    /\ UNCHANGED << mode, playlist >>
    /\ UNCHANGED jobVars

\* Down in the Playlist pane: view.playlist.next(view.state.playlist()).
Key_Down ==
    /\ InPane("playlist_pane")
    /\ \E o \in RenderOutcomes :
         LET st == render(tableState, Len(playlist), o)
         IN  /\ Followed(next(st, Len(playlist)))
             /\ tableState' = Some(next(st, Len(playlist)))
             /\ last' = [op |-> "next", song |-> NoSong,
                         index |-> next(st, Len(playlist)),
                         ok |-> TRUE, pre |-> playlist]
    /\ UNCHANGED << mode, fpc, playlist >>
    /\ UNCHANGED jobVars

\* Backspace in the Playlist pane: playlist_remove(selected()), its result
\* dropped and the selection left where it was.
Key_Backspace ==
    /\ InPane("playlist_pane")
    /\ \E o \in RenderOutcomes :
         LET st == render(tableState, Len(playlist), o)
         IN  /\ playlist' = RemoveResult(playlist, selected(st)).playlist
             /\ tableState' = st
             /\ last' = [op |-> "remove", song |-> NoSong,
                         index |-> selected(st),
                         ok |-> RemoveResult(playlist, selected(st)).ok,
                         pre |-> playlist]
    /\ UNCHANGED << mode, fpc >>
    /\ UNCHANGED jobVars

\* 'C' in the Playlist pane: clear_playlist.
Key_Clear ==
    /\ InPane("playlist_pane")
    /\ playlist' = << >>
    /\ tableState' = None
    /\ last' = [op |-> "clear", song |-> NoSong, index |-> 0, ok |-> TRUE,
                pre |-> playlist]
    /\ UNCHANGED << mode, fpc >>
    /\ UNCHANGED jobVars

(***************************************************************************)
(* Messages and the progress channel (std::sync::mpsc).                    *)
(***************************************************************************)

\* LogMessage::Line(LogLine { is_stderr, line }); `from` is the thread that
\* sent it, `text` and `arg` stand for the line's text.
LineMsg(from, is_stderr, text, arg) ==
    [kind |-> "Line", from |-> from, is_stderr |-> is_stderr, ok |-> TRUE,
     text |-> text, arg |-> arg]

\* LogMessage::Complete(Result<String>); `text` stands for the summary or
\* for the error's description.
CompleteMsg(ok, text) ==
    [kind |-> "Complete", from |-> "worker", is_stderr |-> FALSE, ok |-> ok,
     text |-> text, arg |-> 0]

\* What is in the channel: sent and not yet received.
chan == SubSeq(sent, nrecv + 1, Len(sent))

\* Sender::send succeeds exactly while the Receiver exists.
SendOk == rxAlive

\* Senders of which the worker's is never dropped once a job has started.
SendersAlive_worker_kept == wpc # "none"

\* The Sender clones that exist: the worker's `msgs` lives until
\* playlist_burn returns, stdout_sender and stderr_sender live inside the
\* reader threads' closures.
SendersAlive ==
    \/ wpc \notin {"none", "done"}
    \/ \E s \in Streams : rpc[s] = "run"

\* No thread of the last job is left running.
JobQuiet ==
    /\ wpc \in {"none", "done"}
    /\ \A s \in Streams : rpc[s] # "run"

(***************************************************************************)
(* AppState::burn.                                                         *)
(***************************************************************************)

\* What the worker thread gets of the playlist: self.playlist().to_vec(), a
\* copy made when burn() is called.
BurnInput(pl) == pl

\* The body of burn(): a channel, a copy of the playlist, a worker thread.  The shell
\* goes on to its receive loop, the TUI to BurnPhase::Burning.  One job's
\* threads are modelled at a time: a burn is taken up once the threads of the
\* job before it have ended.
BurnStep(liveAfter) ==
    /\ AtPrompt
    /\ JobQuiet
    /\ snapshot' = BurnInput(playlist)
    /\ wpc' = "tempdir"
    /\ wret' = "none"
    /\ songIdx' = 0
    /\ downsampled' = {}
    /\ scratch' = "none"
    /\ sent' = << >>
    /\ nrecv' = 0
    /\ rxAlive' = TRUE
    /\ handle' = "held"
    /\ wodim' = "none"
    /\ pipe' = [s \in Streams |-> 0]
    /\ rpc' = [s \in Streams |-> "none"]
    /\ rret' = [s \in Streams |-> "none"]
    /\ ffmpegRuns' = << >>
    /\ normalizeRuns' = << >>
    /\ wodimArgs' = << >>
    /\ logs' = << >>
    /\ completed' = FALSE
    /\ fpc' = IF mode = "shell" THEN "recv" ELSE "burning"
    /\ playlist' = liveAfter
    /\ UNCHANGED << mode, last, tableState >>

\* A burn that moves the playlist out of AppState instead of copying it.
burn_moved == BurnStep(<< >>)

\* burn(&self): the live playlist is only read.
burn == BurnStep(playlist)

(***************************************************************************)
(* playlist_burn: the worker thread.                                       *)
(***************************************************************************)

\* TempDir::drop removes the directory and ignores the result of the
\* removal: the directory is gone, or (the removal failed) still on disk.
DropOutcomes == {"removed", "leaked"}

\* The worker's own sends.  None of the front ends drops the Receiver
\* before it has taken a Complete, so the worker's guard on a failed send
\* (`.context("failed to send")?`) is carried along in every step.
WSend(m) == sent' = IF SendOk THEN Append(sent, m) ELSE sent

\* A return that leaves the scratch directory as it is.
WReturn_forget(result) ==
    /\ wpc' = "done"
    /\ wret' = result
    /\ scratch' = scratch

\* playlist_burn returns `result`: its locals are dropped (the TempDir, when
\* the function still owns it, and the Sender `msgs`), the thread ends.
WReturn(result) ==
    /\ wpc' = "done"
    /\ wret' = result
    /\ IF scratch = "live"
       THEN scratch' \in DropOutcomes
       ELSE scratch' = scratch

\* A terminal send that puts its message on the channel twice.
WSendAndReturn_twice(m) ==
    /\ sent' = IF SendOk THEN sent \o << m, m >> ELSE sent
    /\ IF SendOk
       THEN /\ wpc' = "return"
            /\ UNCHANGED << wret, scratch >>
       ELSE WReturn("ErrSend")

\* `msgs.send(m).context("failed to send")?; return Ok(())`: the message is
\* in the channel before the function's locals are dropped and the thread
\* ends (W_Return).
WSendAndReturn(m) ==
    /\ WSend(m)
    /\ IF SendOk
       THEN /\ wpc' = "return"
            /\ UNCHANGED << wret, scratch >>
       ELSE WReturn("ErrSend")

\* A setup whose failure is left to the empty-playlist check.
W_TempDir_unchecked ==
    /\ wpc = "tempdir"
    /\ \E created \in BOOLEAN :
         /\ scratch' = IF created THEN "live" ELSE "none"
         /\ wpc' = "check_empty"
         /\ UNCHANGED << wret, sent >>
    /\ UNCHANGED fgVars
    /\ UNCHANGED << snapshot, songIdx, downsampled, nrecv, rxAlive, handle,
                    wodim, pipe, rpc, rret, ffmpegRuns, normalizeRuns,
                    wodimArgs, logs, completed >>

\* app.rs:234-241  let temp_dir = match temp_dir() { ... }
W_TempDir ==
    /\ wpc = "tempdir"
    /\ \E created \in BOOLEAN :
         IF created
         THEN /\ scratch' = "live"
              /\ wpc' = "check_empty"
              /\ UNCHANGED << wret, sent >>
         ELSE WSendAndReturn(CompleteMsg(FALSE, "tempdir"))
    /\ UNCHANGED fgVars
    /\ UNCHANGED << snapshot, songIdx, downsampled, nrecv, rxAlive, handle,
                    wodim, pipe, rpc, rret, ffmpegRuns, normalizeRuns,
                    wodimArgs, logs, completed >>

\* A check that lets every playlist through.
is_empty_never(pl) == FALSE

\* playlist.is_empty()
is_empty(pl) == Len(pl) = 0

\* app.rs:243-251  if playlist.is_empty() { ... }; let mut downsampled_paths
W_CheckEmpty ==
    /\ wpc = "check_empty"
    /\ IF is_empty(snapshot)
       THEN /\ WSendAndReturn(CompleteMsg(FALSE, "empty"))
            /\ UNCHANGED << songIdx, downsampled >>
       ELSE /\ wpc' = "loop"
            /\ songIdx' = 0
            /\ downsampled' = {}
            /\ UNCHANGED << wret, scratch, sent >>
    /\ UNCHANGED fgVars
    /\ UNCHANGED << snapshot, nrecv, rxAlive, handle, wodim, pipe, rpc, rret,
                    ffmpegRuns, normalizeRuns, wodimArgs, logs, completed >>

\* The song `for song in &playlist` is at.
CurSong == snapshot[songIdx + 1]

\* A lookup that finds no track transcoded yet.
contains_key_never(map, id) == FALSE

\* app.rs:254  downsampled_paths.contains_key(&song.id)
contains_key(map, id) == id \in map

\* app.rs:253-266  the head of one iteration: skip a track already
\* transcoded, or announce the transcode; past the last song, go on to the
\* Normalizer.
W_LoopHead ==
    /\ wpc = "loop"
    /\ IF songIdx >= Len(snapshot)
       THEN /\ wpc' = "normalize"
            /\ UNCHANGED << wret, songIdx, scratch, sent >>
       ELSE IF contains_key(downsampled, CurSong.id)
       THEN /\ songIdx' = songIdx + 1
            /\ UNCHANGED << wpc, wret, scratch, sent >>
       ELSE /\ WSend(LineMsg("worker", FALSE, "transcoding", CurSong.id))
            /\ IF SendOk
               THEN /\ wpc' = "ffmpeg"
                    /\ UNCHANGED << wret, scratch >>
               ELSE WReturn("ErrSend")
            /\ UNCHANGED songIdx
    /\ UNCHANGED fgVars
    /\ UNCHANGED << snapshot, downsampled, nrecv, rxAlive, handle, wodim,
                    pipe, rpc, rret, ffmpegRuns, normalizeRuns, wodimArgs,
                    logs, completed >>

\* How Command::status() of an external stage can end: the process could not
\* be run (an io::Error), or it ran and exited with a non-zero or zero status.
StatusOutcomes == {"io_err", "nonzero", "zero"}

\* A Transcoder status that is never taken for a failure.
ffmpeg_failed_ignored(status) == FALSE

\* app.rs:288  !status.success(), of ffmpeg
ffmpeg_failed(status) == status # "zero"

\* app.rs:269-295  run ffmpeg for the current song.
W_Ffmpeg ==
    /\ wpc = "ffmpeg"
    /\ \E status \in StatusOutcomes :
         /\ ffmpegRuns' = Append(ffmpegRuns, [id |-> CurSong.id, status |-> status])
         /\ IF status = "io_err"
            THEN /\ WReturn("ErrFfmpeg")
                 /\ UNCHANGED << songIdx, downsampled, sent >>
            ELSE IF ffmpeg_failed(status)
            THEN /\ WSendAndReturn(CompleteMsg(FALSE, "ffmpeg"))
                 /\ UNCHANGED << songIdx, downsampled >>
            ELSE /\ downsampled' = downsampled \cup {CurSong.id}
                 /\ songIdx' = songIdx + 1
                 /\ wpc' = "loop"
                 /\ UNCHANGED << wret, scratch, sent >>
    /\ UNCHANGED fgVars
    /\ UNCHANGED << snapshot, nrecv, rxAlive, handle, wodim, pipe, rpc, rret,
                    normalizeRuns, wodimArgs, logs, completed >>

\* A Normalizer status that is never taken for a failure.
normalize_failed_ignored(status) == FALSE

\* A Normalizer status test that takes the zero status for the failure.
normalize_failed_inverted(status) == status = "zero"

\* app.rs:311  !status.success(), of normalize
normalize_failed(status) == status # "zero"

\* A Normalizer stage that is run a second time after a non-zero status.
W_Normalize_retry ==
    /\ wpc = "normalize"
    /\ \E status \in StatusOutcomes :
         /\ normalizeRuns' =
                Append(normalizeRuns, [files |-> downsampled, status |-> status])
         /\ IF status = "io_err"
            THEN /\ WReturn("ErrNormalize")
                 /\ UNCHANGED sent
            ELSE IF normalize_failed(status) /\ Len(normalizeRuns) >= 1
            THEN WSendAndReturn(CompleteMsg(FALSE, "normalize"))
            ELSE /\ wpc' = IF normalize_failed(status) THEN "normalize"
                                                       ELSE "normalized"
                 /\ UNCHANGED << wret, scratch, sent >>
    /\ UNCHANGED fgVars
    /\ UNCHANGED << snapshot, songIdx, downsampled, nrecv, rxAlive, handle,
                    wodim, pipe, rpc, rret, ffmpegRuns, wodimArgs, logs,
                    completed >>

\* app.rs:297-317  run `normalize -b` over downsampled_paths.values().
W_Normalize ==
    /\ wpc = "normalize"
    /\ \E status \in StatusOutcomes :
         /\ normalizeRuns' =
                Append(normalizeRuns, [files |-> downsampled, status |-> status])
         /\ IF status = "io_err"
            THEN /\ WReturn("ErrNormalize")
                 /\ UNCHANGED sent
            ELSE IF normalize_failed(status)
            THEN WSendAndReturn(CompleteMsg(FALSE, "normalize"))
            ELSE /\ wpc' = "normalized"
                 /\ UNCHANGED << wret, scratch, sent >>
    /\ UNCHANGED fgVars
    /\ UNCHANGED << snapshot, songIdx, downsampled, nrecv, rxAlive, handle,
                    wodim, pipe, rpc, rret, ffmpegRuns, wodimArgs, logs,
                    completed >>

\* A step that is `msgs.send(Line).context("failed to send")?` and goes on
\* at `goto`.
WSendLine(text, goto) ==
    /\ WSend(LineMsg("worker", FALSE, text, 0))
    /\ IF SendOk
       THEN /\ wpc' = goto
            /\ UNCHANGED << wret, scratch >>
       ELSE WReturn("ErrSend")
    /\ UNCHANGED fgVars
    /\ UNCHANGED << snapshot, songIdx, downsampled, nrecv, rxAlive, handle,
                    wodim, pipe, rpc, rret, ffmpegRuns, normalizeRuns,
                    wodimArgs, logs, completed >>

\* app.rs:319-326  "Normalized playlist volume"
W_SendNormalized ==
    /\ wpc = "normalized"
    /\ WSendLine("normalized", "announce")

\* app.rs:328-340  playlist_files, then "Burning playlist"
W_SendBurning ==
    /\ wpc = "announce"
    /\ WSendLine("burning", "spawn")

\* The elements of a sequence in the order of their first occurrence.
RECURSIVE FirstOccurrences(_)
FirstOccurrences(seq) ==
    IF seq = << >> THEN << >>
    ELSE LET front == FirstOccurrences(SubSeq(seq, 1, Len(seq) - 1))
             x == seq[Len(seq)]
         IN  IF \E k \in 1 .. Len(front) : front[k] = x
             THEN front
             ELSE Append(front, x)

\* A file list with one entry per distinct track.
playlist_files_unique ==
    FirstOccurrences([k \in 1 .. Len(snapshot) |-> snapshot[k].id])

\* playlist.iter().map(|song| downsampled_paths[&song.id].clone()): the file
\* of a track is named by its id (track_{id}.wav), so a file list is a list
\* of ids.
playlist_files == [k \in 1 .. Len(snapshot) |-> snapshot[k].id]

\* wodim writes at most this many lines to each of its output streams.
MaxOut == 1

\* How Command::spawn() of wodim can end.  The child's working directory is
\* the scratch directory: with the directory gone the chdir fails and spawn
\* returns the io::Error.
SpawnOutcomes(dir) == IF dir = "removed" THEN {"io_err"} ELSE {"io_err", "ok"}

\* app.rs:342-343  Command::new("wodim").current_dir(temp_dir): current_dir()
\* takes the TempDir by value and drops it when it returns, before the rest
\* of the command is built and spawn() runs.
W_CurrentDir ==
    /\ wpc = "spawn"
    /\ scratch' \in DropOutcomes
    /\ wpc' = "spawning"
    /\ UNCHANGED fgVars
    /\ UNCHANGED << snapshot, wret, songIdx, downsampled, sent, nrecv, rxAlive,
                    handle, wodim, pipe, rpc, rret, ffmpegRuns, normalizeRuns,
                    wodimArgs, logs, completed >>

\* How many of the two reader threads thread::spawn() creates (app.rs:372,
\* 389).  thread::spawn() panics when the OS cannot create the thread: the
\* worker thread then unwinds, with the reader threads created before left
\* running.
ThreadOutcomes == 0 .. 2

\* The streams whose reader thread exists when n threads were created.
ReadersCreated(n) ==
    CASE n = 0 -> {}
      [] n = 1 -> {"stdout"}
      [] OTHER -> Streams

\* app.rs:344-403  ...spawn(), then the two reader threads.  A failed spawn
\* leaves playlist_burn through `?`; a panic of thread::spawn() ends the
\* worker thread, its locals dropped by the unwinding, the wodim process
\* left to run.
W_Spawn ==
    /\ wpc = "spawning"
    /\ \E outcome \in SpawnOutcomes(scratch) :
         IF outcome = "io_err"
         THEN /\ wpc' = "done"
              /\ wret' = "ErrSpawn"
              /\ UNCHANGED << wodim, pipe, rpc, wodimArgs >>
         ELSE /\ wodim' = "running"
              /\ wodimArgs' = Append(wodimArgs, playlist_files)
              /\ \E created \in ThreadOutcomes :
                   /\ pipe' \in [Streams -> 0 .. MaxOut]
                   /\ \A s \in Streams \ ReadersCreated(created) : pipe'[s] = 0
                   /\ rpc' = [s \in Streams |->
                                IF s \in ReadersCreated(created)
                                THEN "run" ELSE "none"]
                   /\ IF created = 2
                      THEN /\ wpc' = "wait"
                           /\ UNCHANGED wret
                      ELSE /\ wpc' = "done"
                           /\ wret' = "Panic"
    /\ UNCHANGED fgVars
    /\ UNCHANGED << snapshot, songIdx, downsampled, scratch, sent, nrecv,
                    rxAlive, handle, rret, ffmpegRuns, normalizeRuns, logs,
                    completed >>

\* The wodim process ends, with a zero or a non-zero status; what it wrote
\* stays in its pipes until read.
WodimExit ==
    /\ wodim = "running"
    /\ wodim' \in {"exit0", "exit1"}
    /\ UNCHANGED fgVars
    /\ UNCHANGED << snapshot, wpc, wret, songIdx, downsampled, scratch, sent,
                    nrecv, rxAlive, handle, pipe, rpc, rret, ffmpegRuns,
                    normalizeRuns, wodimArgs, logs, completed >>

\* A Writer status test that takes every status for a success.
wodim_failed_ignored(status) == FALSE

\* app.rs:407  !status.success() of the Writer's exit status.
wodim_failed(status) == status # "exit0"

\* app.rs:405-414  wodim.wait(), then the Complete message.  After a
\* non-zero status the function returns with the reader threads' handles
\* dropped, not joined.
W_Wait ==
    /\ wpc = "wait"
    /\ wodim \in {"exit0", "exit1"}
    /\ \E waited \in BOOLEAN :
         IF ~waited
         THEN /\ WReturn("ErrWait")
              /\ UNCHANGED sent
         ELSE IF wodim_failed(wodim)
         THEN WSendAndReturn(CompleteMsg(FALSE, "burn"))
         ELSE /\ WSend(CompleteMsg(TRUE, "summary"))
              /\ IF SendOk
                 THEN /\ wpc' = "join"
                      /\ UNCHANGED << wret, scratch >>
                 ELSE WReturn("ErrSend")
    /\ UNCHANGED fgVars
    /\ UNCHANGED << snapshot, songIdx, downsampled, nrecv, rxAlive, handle,
                    wodim, pipe, rpc, rret, ffmpegRuns, normalizeRuns,
                    wodimArgs, logs, completed >>

\* app.rs:416-422  join both reader threads (a reader's Err result is not
\* looked at, only a panic is), then return Ok(()).
W_Join ==
    /\ wpc = "join"
    /\ \A s \in Streams : rpc[s] = "done"
    /\ WReturn("Ok")
    /\ UNCHANGED fgVars
    /\ UNCHANGED << snapshot, songIdx, downsampled, sent, nrecv, rxAlive,
                    handle, wodim, pipe, rpc, rret, ffmpegRuns, normalizeRuns,
                    wodimArgs, logs, completed >>

\* `return Ok(())` after the terminal message has been sent.
W_Return ==
    /\ wpc = "return"
    /\ WReturn("Ok")
    /\ UNCHANGED fgVars
    /\ UNCHANGED << snapshot, songIdx, downsampled, sent, nrecv, rxAlive,
                    handle, wodim, pipe, rpc, rret, ffmpegRuns, normalizeRuns,
                    wodimArgs, logs, completed >>

(***************************************************************************)
(* The two reader threads.                                                 *)
(***************************************************************************)

\* The is_stderr field each reader loop gives its LogLine (app.rs:378 for
\* stdout, app.rs:395 for stderr).
ReaderTag(s) == IF s = "stdout" THEN FALSE ELSE FALSE

\* app.rs:372-386 and 389-403  one turn of `for line in stream.lines()`:
\* forward the next line, or end at end-of-file, which comes once wodim has
\* exited and the pipe is empty.
Reader(s) ==
    /\ rpc[s] = "run"
    /\ IF pipe[s] > 0
       THEN /\ pipe' = [pipe EXCEPT ![s] = pipe[s] - 1]
            /\ IF SendOk
               THEN /\ sent' = Append(sent, LineMsg(s, ReaderTag(s), "wodim", pipe[s]))
                    /\ UNCHANGED << rpc, rret >>
               ELSE /\ rpc' = [rpc EXCEPT ![s] = "done"]
                    /\ rret' = [rret EXCEPT ![s] = "ErrSend"]
                    /\ UNCHANGED sent
       ELSE /\ wodim \in {"exit0", "exit1"}
            /\ rpc' = [rpc EXCEPT ![s] = "done"]
            /\ rret' = [rret EXCEPT ![s] = "Ok"]
            /\ UNCHANGED << pipe, sent >>
    /\ UNCHANGED fgVars
    /\ UNCHANGED << snapshot, wpc, wret, songIdx, downsampled, scratch, nrecv,
                    rxAlive, handle, wodim, ffmpegRuns, normalizeRuns,
                    wodimArgs, logs, completed >>

(***************************************************************************)
(* The consumers of the channel.                                           *)
(***************************************************************************)

\* One shown line: a line printed by the shell (style "stdout" or "stderr")
\* or a styled line of the TUI's burn log ("green", "red", "white").
Shown(style, text, arg) == [style |-> style, text |-> text, arg |-> arg]

NextMsg == sent[nrecv + 1]

\* app.rs:543-557  one successful rx.recv() of the shell's loop.  A Line is
\* printed; a Complete(Ok) is printed and the loop goes on; a Complete(Err)
\* leaves handle_command through `result?`, which drops the Receiver and the
\* JoinHandle, and run_shell prints the error and prompts again.
Shell_Recv ==
    /\ fpc = "recv"
    /\ nrecv < Len(sent)
    /\ nrecv' = nrecv + 1
    /\ IF NextMsg.kind = "Line"
       THEN /\ logs' = Append(logs,
                   Shown(IF NextMsg.is_stderr THEN "stderr" ELSE "stdout",
                         NextMsg.text, NextMsg.arg))
            /\ UNCHANGED << fpc, rxAlive, handle >>
       ELSE IF NextMsg.ok
       THEN /\ logs' = Append(logs, Shown("stdout", NextMsg.text, 0))
            /\ UNCHANGED << fpc, rxAlive, handle >>
       ELSE /\ logs' = Append(logs, Shown("stderr", NextMsg.text, 0))
            /\ fpc' = "prompt"
            /\ rxAlive' = FALSE
            /\ handle' = "dropped"
    /\ UNCHANGED << mode, playlist, last, tableState >>
    /\ UNCHANGED << snapshot, wpc, wret, songIdx, downsampled, scratch, sent,
                    wodim, pipe, rpc, rret, ffmpegRuns, normalizeRuns,
                    wodimArgs, completed >>

\* app.rs:543, 559-561  rx.recv() fails once the channel is empty and every
\* Sender is gone: the loop ends and the worker thread is joined.  Only a
\* panic of the worker makes join() fail, and the failure is printed; an
\* error the worker returned is not looked at.
Shell_Disconnected ==
    /\ fpc = "recv"
    /\ nrecv = Len(sent)
    /\ ~SendersAlive
    /\ handle' = "joined"
    /\ logs' = IF wret = "Panic"
               THEN Append(logs, Shown("stderr", "join_failed", 0))
               ELSE logs
    /\ rxAlive' = FALSE
    /\ fpc' = "prompt"
    /\ UNCHANGED << mode, playlist, last, tableState >>
    /\ UNCHANGED << snapshot, wpc, wret, songIdx, downsampled, scratch, sent,
                    nrecv, wodim, pipe, rpc, rret, ffmpegRuns, normalizeRuns,
                    wodimArgs, completed >>

\* view.rs:272-303  one successful rx.try_recv() of a render tick.  A Line
\* is appended in its stream's colour; a Complete appends the result line
\* and the hint, and goes on to join the worker thread.
Tui_Drain ==
    /\ fpc = "burning"
    /\ nrecv < Len(sent)
    /\ nrecv' = nrecv + 1
    /\ IF NextMsg.kind = "Line"
       THEN /\ logs' = Append(logs,
                   Shown(IF NextMsg.is_stderr THEN "red" ELSE "green",
                         NextMsg.text, NextMsg.arg))
            /\ UNCHANGED fpc
       ELSE /\ logs' = logs \o
                   << Shown(IF NextMsg.ok THEN "green" ELSE "red", NextMsg.text, 0),
                      Shown("white", "press_q", 0) >>
            /\ fpc' = "joining"
    /\ UNCHANGED << mode, playlist, last, tableState >>
    /\ UNCHANGED << snapshot, wpc, wret, songIdx, downsampled, scratch, sent,
                    rxAlive, handle, wodim, pipe, rpc, rret, ffmpegRuns,
                    normalizeRuns, wodimArgs, completed >>

\* view.rs:282-292  handle.take().unwrap().join() returns once the worker
\* thread has ended; its result is appended and `completed` is set, and the
\* drain loop goes on.  A join that fails, which is a worker that panicked,
\* ends run_app with the error.
Tui_Join ==
    /\ fpc = "joining"
    /\ wpc = "done"
    /\ handle' = "joined"
    /\ IF wret = "Panic"
       THEN /\ fpc' = "fatal"
            /\ UNCHANGED << logs, completed >>
       ELSE /\ logs' = Append(logs,
                   IF wret = "Ok" THEN Shown("green", "", 0)
                                  ELSE Shown("red", wret, 0))
            /\ completed' = TRUE
            /\ fpc' = "burning"
    /\ UNCHANGED << mode, playlist, last, tableState >>
    /\ UNCHANGED << snapshot, wpc, wret, songIdx, downsampled, scratch, sent,
                    nrecv, rxAlive, wodim, pipe, rpc, rret, ffmpegRuns,
                    normalizeRuns, wodimArgs >>

\* An end of tick that leaves Burning without looking at `completed`.
Tui_EndTick_unconditional ==
    /\ fpc = "burning"
    /\ nrecv = Len(sent)
    /\ fpc' = "completed"
    /\ rxAlive' = FALSE
    /\ UNCHANGED << mode, playlist, last, tableState >>
    /\ UNCHANGED << snapshot, wpc, wret, songIdx, downsampled, scratch, sent,
                    nrecv, handle, wodim, pipe, rpc, rret, ffmpegRuns,
                    normalizeRuns, wodimArgs, logs, completed >>

\* An end of tick that enters Completed with a log of its own.
Tui_EndTick_fresh_log ==
    /\ fpc = "burning"
    /\ nrecv = Len(sent)
    /\ completed
    /\ fpc' = "completed"
    /\ rxAlive' = FALSE
    /\ logs' = << >>
    /\ UNCHANGED << mode, playlist, last, tableState >>
    /\ UNCHANGED << snapshot, wpc, wret, songIdx, downsampled, scratch, sent,
                    nrecv, handle, wodim, pipe, rpc, rret, ffmpegRuns,
                    normalizeRuns, wodimArgs, completed >>

\* view.rs:272, 306-313  rx.try_recv() finds nothing, the log is drawn, and
\* with `completed` set the phase becomes Completed with the same log; the
\* Burning value, and in it the Receiver, is dropped.
Tui_EndTick ==
    /\ fpc = "burning"
    /\ nrecv = Len(sent)
    /\ completed
    /\ fpc' = "completed"
    /\ rxAlive' = FALSE
    /\ UNCHANGED << mode, playlist, last, tableState >>
    /\ UNCHANGED << snapshot, wpc, wret, songIdx, downsampled, scratch, sent,
                    nrecv, handle, wodim, pipe, rpc, rret, ffmpegRuns,
                    normalizeRuns, wodimArgs, logs, completed >>

\* view.rs:315-326  in Completed, the key 'Q' leads back to BuildingPlaylist
\* and the log is dropped.
Tui_Ack ==
    /\ fpc = "completed"
    /\ fpc' = "building"
    /\ logs' = << >>
    /\ UNCHANGED << mode, playlist, last, tableState >>
    /\ UNCHANGED << snapshot, wpc, wret, songIdx, downsampled, scratch, sent,
                    nrecv, rxAlive, handle, wodim, pipe, rpc, rret,
                    ffmpegRuns, normalizeRuns, wodimArgs, completed >>

(***************************************************************************)
(* The system.                                                             *)
(***************************************************************************)

\* No job yet: the state of a job's threads, channel and records before any
\* burn.
FreshJob ==
    /\ last = [op |-> "none", song |-> NoSong, index |-> 0, ok |-> TRUE,
               pre |-> << >>]
    /\ tableState = << >>
    /\ snapshot = << >>
    /\ wpc = "none"
    /\ wret = "none"
    /\ songIdx = 0
    /\ downsampled = {}
    /\ scratch = "none"
    /\ sent = << >>
    /\ nrecv = 0
    /\ rxAlive = FALSE
    /\ handle = "none"
    /\ wodim = "none"
    /\ pipe = [s \in Streams |-> 0]
    /\ rpc = [s \in Streams |-> "none"]
    /\ rret = [s \in Streams |-> "none"]
    /\ ffmpegRuns = << >>
    /\ normalizeRuns = << >>
    /\ wodimArgs = << >>
    /\ logs = << >>
    /\ completed = FALSE

\* AppState::new(): an empty playlist, and no job yet.
Fresh == playlist = << >> /\ FreshJob

\* run_shell at its first prompt, or run_app in BuildingPlaylist.
Init ==
    /\ mode \in {"shell", "tui"}
    /\ fpc = IF mode = "shell" THEN "prompt" ELSE "building"
    /\ Fresh

Next ==
    \/ \E song \in Library : playlist_add(song)
    \/ \E index \in 0 .. MaxIndex : playlist_remove(index)
    \/ playlist_clear
    \/ burn
    \/ W_TempDir
    \/ W_CheckEmpty
    \/ W_LoopHead
    \/ W_Ffmpeg
    \/ W_Normalize
    \/ W_SendNormalized
    \/ W_SendBurning
    \/ W_CurrentDir
    \/ W_Spawn
    \/ WodimExit
    \/ W_Wait
    \/ W_Join
    \/ W_Return
    \/ \E s \in Streams : Reader(s)
    \/ Shell_Recv
    \/ Shell_Disconnected
    \/ Tui_Drain
    \/ Tui_Join
    \/ Tui_EndTick
    \/ Tui_Ack

Spec == Init /\ [][Next]_vars

\* The playlist operations alone, called in any order on a new AppState.
PlaylistInit ==
    /\ mode = "calls"
    /\ fpc = "calls"
    /\ Fresh

PlaylistNext ==
    \/ \E song \in Library : Call_playlist_add(song)
    \/ \E index \in 0 .. MaxIndex : Call_playlist_remove(index)
    \/ Call_playlist_clear

PlaylistSpec == PlaylistInit /\ [][PlaylistNext]_vars

\* Calls on an AppState with Songs of any u64 duration.
U64Next ==
    \/ \E song \in Library \cup U64Songs : Call_playlist_add_u64(song)
    \/ \E index \in 0 .. MaxIndex : fpc = "calls" /\ Call_playlist_remove(index)
    \/ fpc = "calls" /\ Call_playlist_clear

U64Spec == PlaylistInit /\ [][U64Next]_vars

\* run_app building a playlist: the keys of the three panes.
PaneInit ==
    /\ mode = "tui"
    /\ fpc = "artists_pane"
    /\ Fresh

PaneNext ==
    \/ Key_Right_Artists
    \/ Key_Left_Tracks
    \/ Key_Right_Tracks
    \/ \E song \in Library : Key_Enter(song)
    \/ Key_Left_Playlist
    \/ Key_Up
    \/ Key_Down
    \/ Key_Backspace
    \/ Key_Clear

PaneSpec == PaneInit /\ [][PaneNext]_vars

\* The playlists a burn is asked for in the runs that follow one job to its
\* end: none, one track, two tracks, a track twice around another.
BurnPlaylists ==
    LET a == [id |-> 1, duration_sec |-> 1500]
        b == [id |-> 2, duration_sec |-> 1700]
    IN  { << >>, << a >>, << a, b >>, << a, b, a >> }

\* A front end with a playlist built, about to be asked for a burn.
BurnInit ==
    /\ mode \in {"shell", "tui"}
    /\ fpc = IF mode = "shell" THEN "prompt" ELSE "building"
    /\ playlist \in BurnPlaylists
    /\ FreshJob

\* The steps of the worker thread, which is one sequential thread.
WorkerStep ==
    \/ W_TempDir
    \/ W_CheckEmpty
    \/ W_LoopHead
    \/ W_Ffmpeg
    \/ W_Normalize
    \/ W_SendNormalized
    \/ W_SendBurning
    \/ W_CurrentDir
    \/ W_Spawn
    \/ W_Wait
    \/ W_Join
    \/ W_Return

\* The steps the foreground thread takes by itself while a job is shown:
\* the shell's receive loop, the polling view's ticks.
ConsumerStep ==
    \/ Shell_Recv
    \/ Shell_Disconnected
    \/ Tui_Drain
    \/ Tui_Join
    \/ Tui_EndTick

BurnNext ==
    \/ burn
    \/ WorkerStep
    \/ WodimExit
    \/ \E s \in Streams : Reader(s)
    \/ ConsumerStep
    \/ Tui_Ack

\* Jobs run under a fair scheduler: a thread that can take a step
\* eventually takes it, and a wodim process that runs eventually exits.
\* Nothing is assumed of the user: a burn request and the key that leaves
\* Completed may never come.
BurnFairness ==
    /\ WF_vars(WorkerStep)
    /\ WF_vars(WodimExit)
    /\ \A s \in Streams : WF_vars(Reader(s))
    /\ WF_vars(ConsumerStep)

BurnSpec == BurnInit /\ [][BurnNext]_vars /\ BurnFairness

(***************************************************************************)
(* Properties.                                                             *)
(***************************************************************************)

\* The positions of `sent` that hold a Complete, and those that hold a Line.
CompleteAt == {i \in 1 .. Len(sent) : sent[i].kind = "Complete"}
LineAt == {i \in 1 .. Len(sent) : sent[i].kind = "Line"}

\* The worker thread has ended.
WorkerEnded == wpc = "done"

\* The worker has sent its terminal message or ended.
WorkerFinishing == wpc \in {"return", "done"}

\* C1: when the worker thread has ended, whatever the outcome of its job, it
\* has sent exactly one Complete and has returned Ok: no failure is the
\* thread's own error return.
C1_ExactlyOneComplete ==
    WorkerEnded => (Cardinality(CompleteAt) = 1 /\ wret = "Ok")

\* C2: no Line is put on the channel after the job's Complete.
C2_CompleteIsLast ==
    \A i \in CompleteAt : \A j \in LineAt : j < i

\* C3: the durations of the playlist's entries sum to at most 4799.
C3_CapacityInvariant == SumDuration(playlist) <= CD_MAX_DURATION_SECONDS

\* A playlist of several tracks to which no track of the library can be
\* added any more.
C3_Witness ==
    /\ Len(playlist) = 3
    /\ SumDuration(playlist) = 4700
    /\ \A song \in Library :
         SumDuration(playlist) + song.duration_sec > CD_MAX_DURATION_SECONDS

\* C4: playlist_add(T) succeeds, appending T as the last entry, exactly when
\* total_duration(P) + T.duration_sec <= 4799, and leaves P as it was when
\* it fails.
C4_AddIffFits ==
    last.op = "add" =>
        /\ last.ok <=>
             SumDuration(last.pre) + last.song.duration_sec
                 <= CD_MAX_DURATION_SECONDS
        /\ last.ok => playlist = Append(last.pre, last.song)
        /\ ~last.ok => playlist = last.pre

\* A track that would fit on an empty disc is turned away by a playlist that
\* already holds others.
C4_Witness ==
    /\ last.op = "add"
    /\ ~last.ok
    /\ last.pre # << >>
    /\ last.song.duration_sec <= CD_MAX_DURATION_SECONDS
    /\ playlist = last.pre

\* C5: playlist_remove(i) on a playlist of length n returns true exactly
\* when i < n; it then drops entry i alone, the others keeping their order;
\* when it returns false the playlist is as it was.
C5_RemoveInRange ==
    last.op = "remove" =>
        /\ last.ok <=> last.index < Len(last.pre)
        /\ last.ok =>
             /\ Len(playlist) = Len(last.pre) - 1
             /\ \A k \in 1 .. Len(playlist) :
                  playlist[k] = IF k <= last.index THEN last.pre[k]
                                ELSE last.pre[k + 1]
        /\ ~last.ok => playlist = last.pre

\* The first of three entries, of which the last differs, has been removed.
C5_Witness ==
    /\ last.op = "remove"
    /\ last.ok
    /\ last.index = 0
    /\ Len(last.pre) = 3
    /\ last.pre[3] # last.pre[2]

\* C6: the job works on the copy of the playlist made by burn().  A step
\* that changes the live playlist changes nothing of what the job reads and
\* does, so no step of the job changes the live playlist; the job's copy is
\* only ever set to the live playlist of that moment; and what is transcoded
\* and written is taken from the copy.
C6_SnapshotIsolated ==
    [][ /\ playlist' # playlist =>
             UNCHANGED << snapshot, songIdx, downsampled, ffmpegRuns,
                          normalizeRuns, wodimArgs >>
        /\ snapshot' # snapshot => snapshot' = playlist
        /\ Len(ffmpegRuns') > Len(ffmpegRuns) =>
             ffmpegRuns'[Len(ffmpegRuns')].id = snapshot[songIdx + 1].id
        /\ Len(wodimArgs') > Len(wodimArgs) =>
             wodimArgs'[Len(wodimArgs')] =
                 [k \in 1 .. Len(snapshot) |-> snapshot[k].id]
      ]_vars

\* The live playlist has been changed while the worker thread of a job
\* started earlier had not ended yet.
C6_Witness ==
    /\ wpc = "return"
    /\ snapshot # << >>
    /\ fpc = "prompt"
    /\ playlist # snapshot

\* C7, as claimed: a burn of an empty playlist sends the single message
\* Complete(Err(empty playlist)) and runs no external process.
C7_EmptyBurn ==
    (snapshot = << >> /\ WorkerFinishing) =>
        /\ sent = << CompleteMsg(FALSE, "empty") >>
        /\ ffmpegRuns = << >>
        /\ normalizeRuns = << >>
        /\ wodimArgs = << >>

\* C7, amended: a burn of an empty playlist sends no Line and runs no
\* external process; it sends exactly one message, which is
\* Complete(Err(empty playlist)) when the scratch directory could be created.
C7_EmptyBurnAfterSetup ==
    (snapshot = << >> /\ wpc # "none") =>
        /\ LineAt = {}
        /\ ffmpegRuns = << >>
        /\ normalizeRuns = << >>
        /\ wodimArgs = << >>
        /\ WorkerFinishing => Len(sent) = 1
        /\ (WorkerFinishing /\ scratch # "none") =>
               sent = << CompleteMsg(FALSE, "empty") >>

\* The job of an empty playlist has ended after creating its scratch
\* directory.
C7_Witness ==
    /\ snapshot = << >>
    /\ WorkerEnded
    /\ scratch # "none"
    /\ sent = << CompleteMsg(FALSE, "empty") >>

\* C8: a Transcoder run that exits non-zero is the job's last external
\* process: no Transcoder run follows it, the Normalizer and the Writer are
\* not run, and the one Complete sent is Complete(Err(TranscodeFailed)), the
\* last message of the worker.
C8_TranscodeFailureAborts ==
    \A i \in 1 .. Len(ffmpegRuns) :
        ffmpegRuns[i].status = "nonzero" =>
            /\ i = Len(ffmpegRuns)
            /\ normalizeRuns = << >>
            /\ wodimArgs = << >>
            /\ wodim = "none"
            /\ WorkerFinishing
            /\ CompleteAt = {Len(sent)}
            /\ sent[Len(sent)] = CompleteMsg(FALSE, "ffmpeg")

\* The Transcoder failed on the second of two tracks and the job has ended.
C8_Witness ==
    /\ Len(ffmpegRuns) = 2
    /\ ffmpegRuns[1].status = "zero"
    /\ ffmpegRuns[2].status = "nonzero"
    /\ WorkerEnded

\* C9: after a Normalizer run that exits non-zero the job sends
\* Complete(Err(NormalizeFailed)) and ends: the Writer is not spawned, and
\* neither the normalize confirmation nor the write announcement is sent.
C9_NormalizeFailureAborts ==
    \A i \in 1 .. Len(normalizeRuns) :
        normalizeRuns[i].status = "nonzero" =>
            /\ Len(normalizeRuns) = 1
            /\ wodimArgs = << >>
            /\ wodim = "none"
            /\ WorkerFinishing
            /\ CompleteAt = {Len(sent)}
            /\ sent[Len(sent)] = CompleteMsg(FALSE, "normalize")
            /\ \A j \in LineAt : sent[j].text \notin {"normalized", "burning"}

\* The Normalizer failed on two transcoded tracks and the job has ended.
C9_Witness ==
    /\ Len(normalizeRuns) = 1
    /\ normalizeRuns[1].status = "nonzero"
    /\ Cardinality(normalizeRuns[1].files) = 2
    /\ WorkerEnded

\* C10: a job whose Writer could not be spawned has sent
\* Complete(Err(WriterSpawnFailed)).
C10_SpawnFailureReported ==
    wret = "ErrSpawn" =>
        \E i \in CompleteAt : ~sent[i].ok /\ sent[i].text = "spawn"

\* The ids of the tracks of the job's playlist copy.
SnapshotIds == {snapshot[k].id : k \in 1 .. Len(snapshot)}

\* wait() has handed the worker the Writer's exit status.
WriterStatusKnown ==
    /\ wodim \in {"exit0", "exit1"}
    /\ wpc \in {"join", "return", "done"}
    /\ wret \notin {"ErrWait", "Panic"}

TranscodedIds == [r \in 1 .. Len(ffmpegRuns) |-> ffmpegRuns[r].id]

IsTranscodeLine(m) == m.kind = "Line" /\ m.text = "transcoding"

\* The ids the transcode announcements on the channel name, in send order.
AnnouncedIds ==
    LET lines == SelectSeq(sent, IsTranscodeLine)
    IN  [k \in 1 .. Len(lines) |-> lines[k].arg]

\* C12: the Transcoder is invoked at most once per track id, in the order
\* in which the ids first occur in the playlist copy, however often an id
\* occurs; once the transcode loop is through, every distinct id has had
\* its one invocation; and the transcode announcements on the channel are
\* one per invocation, each sent before its invocation.
C12_TranscodeOncePerId ==
    LET firsts == FirstOccurrences([k \in 1 .. Len(snapshot) |-> snapshot[k].id])
    IN  /\ Len(TranscodedIds) <= Len(firsts)
        /\ TranscodedIds = SubSeq(firsts, 1, Len(TranscodedIds))
        /\ wpc \in {"normalize", "normalized", "announce", "spawn", "spawning",
                    "wait", "join"}
              => TranscodedIds = firsts
        /\ IF wpc = "ffmpeg"
           THEN AnnouncedIds = Append(TranscodedIds, CurSong.id)
           ELSE AnnouncedIds = TranscodedIds

\* The playlist copy holds track 1, track 2 and track 1 again, and the
\* transcode loop is through with two invocations.
C12_Witness ==
    /\ Len(snapshot) = 3
    /\ snapshot[1].id = snapshot[3].id
    /\ snapshot[1].id # snapshot[2].id
    /\ wpc = "normalize"
    /\ Len(ffmpegRuns) = 2

\* C13: before the file list is built every track of the playlist copy has
\* its transcoded file, so that each lookup succeeds; and the file list the
\* Writer is spawned with has one entry per playlist entry, entry k being
\* the file of the track at position k, a track that occurs twice having
\* its file listed twice.
C13_FileListFollowsPlaylist ==
    /\ wpc \in {"normalize", "normalized", "announce", "spawn", "spawning"}
          => \A k \in 1 .. Len(snapshot) : snapshot[k].id \in downsampled
    /\ \A w \in 1 .. Len(wodimArgs) :
          /\ Len(wodimArgs[w]) = Len(snapshot)
          /\ \A k \in 1 .. Len(snapshot) :
                /\ wodimArgs[w][k] = snapshot[k].id
                /\ wodimArgs[w][k] \in downsampled

\* The Writer was spawned for a playlist copy of three entries, the first
\* and the third the same track.
C13_Witness ==
    /\ Len(wodimArgs) = 1
    /\ Len(wodimArgs[1]) = 3
    /\ wodimArgs[1][1] = wodimArgs[1][3]
    /\ wodimArgs[1][1] # wodimArgs[1][2]

\* C14: every Line a reader loop forwarded carries the stream it was read
\* from: is_stderr is true on a Line read from the Writer's standard error
\* and false on a Line read from its standard output.
C14_LinesTaggedByStream ==
    \A i \in LineAt :
        sent[i].from \in Streams => (sent[i].is_stderr <=> sent[i].from = "stderr")

\* The playlist copy holds two distinct tracks and the job has sent
\* Complete(Ok).
TwoTrackSuccess ==
    /\ Len(snapshot) = 2
    /\ snapshot[1].id # snapshot[2].id
    /\ \E i \in CompleteAt : sent[i].ok

\* The first four messages of a two-track job are the two transcode
\* announcements, the normalize confirmation and the write announcement,
\* and every later Line is a line of Writer output.
OrchestratorLinesFirst ==
    /\ Len(sent) >= 5
    /\ \A k \in 1 .. 2 :
          /\ sent[k].kind = "Line"
          /\ sent[k].text = "transcoding"
          /\ sent[k].arg = snapshot[k].id
    /\ sent[3].kind = "Line" /\ sent[3].text = "normalized"
    /\ sent[4].kind = "Line" /\ sent[4].text = "burning"
    /\ \A j \in 5 .. Len(sent) :
          sent[j].kind = "Line" => sent[j].from \in Streams

\* C15: in a successful burn of two distinct tracks the channel holds, in
\* this order, two transcode announcements, the normalize confirmation, the
\* write announcement, the Lines of Writer output and then the one
\* Complete(Ok), after which nothing is put on the channel.
C15_SuccessfulBurnOrder ==
    TwoTrackSuccess =>
        /\ OrchestratorLinesFirst
        /\ Cardinality(CompleteAt) = 1
        /\ \A i \in CompleteAt : \A j \in 1 .. Len(sent) : j <= i

\* C16: whenever the shell is back at its prompt after a burn command, the
\* worker thread of that command has been joined, whether the job's
\* Complete carried Ok or Err.
C16_ShellJoinsWorker ==
    (mode = "shell" /\ fpc = "prompt" /\ handle # "none") => handle = "joined"

\* The BurnPhase variant run_app is in, read off its position.
BurnPhaseOf(pos) ==
    CASE pos = "building" -> "BuildingPlaylist"
      [] pos \in {"burning", "joining"} -> "Burning"
      [] pos = "completed" -> "Completed"
      [] OTHER -> "none"

\* C17: a step of the polling view changes the burn phase only from
\* BuildingPlaylist to Burning, by a burn request that starts a job, from
\* Burning to Completed, with `completed` set, or from Completed to
\* BuildingPlaylist.
C17_PhaseTransitions ==
    [][mode = "tui" =>
         \/ BurnPhaseOf(fpc') = BurnPhaseOf(fpc)
         \/ /\ BurnPhaseOf(fpc) = "BuildingPlaylist"
            /\ BurnPhaseOf(fpc') = "Burning"
            /\ wpc' = "tempdir"
            /\ handle' = "held"
         \/ /\ BurnPhaseOf(fpc) = "Burning"
            /\ BurnPhaseOf(fpc') = "Completed"
            /\ completed
         \/ /\ BurnPhaseOf(fpc) = "Completed"
            /\ BurnPhaseOf(fpc') = "BuildingPlaylist"]_vars

\* The polling view is in BuildingPlaylist again after a job it showed in
\* Burning and in Completed.
C17_Witness ==
    /\ mode = "tui"
    /\ BurnPhaseOf(fpc) = "BuildingPlaylist"
    /\ handle = "joined"
    /\ completed

\* C18: whenever a front end is where it takes a burn request (the shell at
\* its prompt, the polling view in BuildingPlaylist), the worker thread of
\* the job started before has ended and every message that job sent has
\* been consumed.
C18_OneJobAtATime ==
    AtPrompt =>
        /\ wpc \in {"none", "done"}
        /\ \A i \in CompleteAt : i <= nrecv

\* The job's scratch directory is on disk.
ScratchExists == scratch \in {"live", "leaked"}

C20_ScratchOutlivesWriter ==
    wpc \in {"check_empty", "loop", "ffmpeg", "normalize", "normalized",
             "announce", "spawn", "spawning", "wait"}
        => ScratchExists

\* C21: the stages of a job run one after the other.  A Normalizer run
\* exists only after a Transcoder run with status zero for every distinct
\* track of the playlist copy, a Writer only after the one Normalizer run
\* over those files with status zero; and while the Writer process runs the
\* worker is in wait(), launching nothing.
C21_StagesInSequence ==
    /\ normalizeRuns # << >> =>
          /\ \A r \in 1 .. Len(ffmpegRuns) : ffmpegRuns[r].status = "zero"
          /\ {ffmpegRuns[r].id : r \in 1 .. Len(ffmpegRuns)} = SnapshotIds
          /\ wpc \notin {"loop", "ffmpeg"}
    /\ (wodim # "none" \/ wodimArgs # << >>) =>
          /\ normalizeRuns = << [files |-> SnapshotIds, status |-> "zero"] >>
          /\ wpc \notin {"loop", "ffmpeg", "normalize"}
    /\ wodim = "running" => (wpc = "wait" \/ wret = "Panic")

\* The Writer process is running after two Transcoder runs and the
\* Normalizer run.
C21_Witness ==
    /\ wodim = "running"
    /\ Len(ffmpegRuns) = 2
    /\ Len(normalizeRuns) = 1

\* C22: when the worker thread of a job that spawned the Writer ends, with
\* whatever Writer status, both reader threads have ended and no line is
\* left unread in the Writer's pipes.
C22_ReadersDoneBeforeWorker ==
    (WorkerEnded /\ wodim # "none") =>
        \A s \in Streams : rpc[s] = "done" /\ pipe[s] = 0

\* The scratch directory could not be created.
SetupFailed == scratch = "none" /\ wpc \notin {"none", "tempdir"}

\* C23: when the scratch directory cannot be created, for an empty playlist
\* copy as for any other, the channel holds the one message
\* Complete(Err(tempdir)), no external process is run and the worker
\* returns Ok.
C23_SetupFailureReported ==
    SetupFailed =>
        /\ sent = << CompleteMsg(FALSE, "tempdir") >>
        /\ ffmpegRuns = << >>
        /\ normalizeRuns = << >>
        /\ wodimArgs = << >>
        /\ wodim = "none"
        /\ WorkerFinishing
        /\ WorkerEnded => wret = "Ok"

\* The scratch directory could not be created for an empty playlist copy,
\* and the worker has ended.
C23_Witness ==
    /\ SetupFailed
    /\ snapshot = << >>
    /\ WorkerEnded

\* C24: within one job no Transcoder invocation repeats a track id, the
\* Normalizer and the Writer are run at most once, and a stage that failed
\* (a process that could not be run or that exited non-zero) is the last
\* external process of the job: the worker goes on to nothing but its
\* return.
C24_NoRetry ==
    /\ \A a, b \in 1 .. Len(ffmpegRuns) :
          a # b => ffmpegRuns[a].id # ffmpegRuns[b].id
    /\ Len(normalizeRuns) <= 1
    /\ Len(wodimArgs) <= 1
    /\ \A r \in 1 .. Len(ffmpegRuns) :
          ffmpegRuns[r].status # "zero" =>
            /\ r = Len(ffmpegRuns)
            /\ normalizeRuns = << >>
            /\ wodimArgs = << >> /\ wodim = "none"
            /\ WorkerFinishing
    /\ \A r \in 1 .. Len(normalizeRuns) :
          normalizeRuns[r].status # "zero" =>
            /\ wodimArgs = << >> /\ wodim = "none"
            /\ WorkerFinishing
    /\ wret = "ErrSpawn" => (wodimArgs = << >> /\ wodim = "none")
    /\ (wodim = "exit1" /\ wpc # "wait") => WorkerFinishing

\* The Writer exited non-zero after two Transcoder runs and one Normalizer
\* run, and the worker has ended with nothing run again.
C24_Witness ==
    /\ WorkerEnded
    /\ wodim = "exit1"
    /\ Len(ffmpegRuns) = 2
    /\ Len(normalizeRuns) = 1
    /\ Len(wodimArgs) = 1

\* The log entries the polling view makes of one message: a Line gives one
\* entry in its stream's colour, a Complete the result line and the hint
\* and, once the worker thread is joined, the line of the join's result.
TuiEntries(m) ==
    IF m.kind = "Line"
    THEN << Shown(IF m.is_stderr THEN "red" ELSE "green", m.text, m.arg) >>
    ELSE << Shown(IF m.ok THEN "green" ELSE "red", m.text, 0),
            Shown("white", "press_q", 0) >>
         \o (IF handle = "joined"
             THEN << IF wret = "Ok" THEN Shown("green", "", 0)
                                    ELSE Shown("red", wret, 0) >>
             ELSE << >>)

\* The entries of the first n messages of the channel, in channel order.
RECURSIVE TuiLogOf(_)
TuiLogOf(n) == IF n = 0 THEN << >> ELSE TuiLogOf(n - 1) \o TuiEntries(sent[n])

\* The polling view has taken the job's Complete off the channel.
CompleteDrained == \E i \in CompleteAt : i <= nrecv

\* C25: in the polling view the log is, entry for entry and in channel
\* order, what the messages drained so far give, in Burning and unchanged in
\* Completed; the drain of the Complete appends the result line and goes on
\* to the join, after which `completed` is set within the same drain loop,
\* so that the end of that tick enters Completed.
C25_CompleteTick ==
    mode = "tui" =>
        /\ fpc \in {"burning", "joining", "completed"} => logs = TuiLogOf(nrecv)
        /\ fpc = "joining" =>
              (CompleteDrained /\ ~completed /\ handle = "held")
        /\ (fpc = "burning" /\ CompleteDrained) =>
              (completed /\ handle = "joined")
        /\ (fpc = "burning" /\ ~CompleteDrained) => ~completed
        /\ fpc = "completed" =>
              (CompleteDrained /\ completed /\ handle = "joined")

\* The polling view is in Completed with a log of the four orchestrator
\* Lines, a Line of Writer output and the entries of Complete(Ok).
C25_Witness ==
    /\ mode = "tui"
    /\ fpc = "completed"
    /\ Len(logs) = 8
    /\ \E i \in CompleteAt : sent[i].ok /\ i <= nrecv

\* C26: the polling view never waits for a thread of the job: whenever it
\* is at the join of the worker thread, that thread has ended, so that the
\* join returns at once.
C26_PollingNeverBlocks ==
    fpc = "joining" => wpc = "done"

\* The consumer has reported the failed join of the worker thread: the
\* shell by its message, the polling view by ending with the error.
JoinFailureReported ==
    \/ /\ mode = "shell"
       /\ \E k \in 1 .. Len(logs) : logs[k] = Shown("stderr", "join_failed", 0)
    \/ /\ mode = "tui"
       /\ fpc = "fatal"

\* C27: a worker thread that has panicked leads to the consumer reporting
\* a join failure.
C27_PanicReported ==
    (wret = "Panic") ~> JoinFailureReported

\* C28: under fair scheduling, with a Writer that exits, the shell's
\* receive loop for a burn ends and the shell is at its prompt again,
\* whatever the outcome of the job.
C28_ShellLoopEnds ==
    (mode = "shell" /\ fpc = "recv") ~> (fpc = "prompt")

\* The shell is at its prompt again after a job whose Writer could not be
\* spawned and that sent no Complete: the loop ended on the disconnect.
C28_Witness ==
    /\ mode = "shell"
    /\ fpc = "prompt"
    /\ handle = "joined"
    /\ wret = "ErrSpawn"
    /\ CompleteAt = {}

\* C29: under fair scheduling, with a Writer that exits, the polling view
\* leaves Burning for Completed, whatever the outcome of the job.
C29_BurningEnds ==
    (mode = "tui" /\ fpc \in {"burning", "joining"}) ~> (fpc = "completed")

\* C30: once the consumer has dropped the receiver, every message of the
\* job was received before, and no reader loop has read a line it could not
\* send or has a line still to forward.
C30_NoLineLost ==
    (~rxAlive /\ wpc # "none") =>
        /\ nrecv = Len(sent)
        /\ \A s \in Streams :
              /\ rret[s] # "ErrSend"
              /\ rpc[s] = "run" => pipe[s] = 0

\* C31: a job puts at most one Complete on the channel, and whenever the
\* polling view is about to take and unwrap the stored thread handle, on a
\* Complete it has drained, the handle is still there: the view joins at
\* most once per job, whatever messages follow the Complete.
C31_JoinAtMostOnce ==
    /\ Cardinality(CompleteAt) <= 1
    /\ mode = "tui" =>
          /\ fpc = "joining" => handle = "held"
          /\ handle = "joined" => CompleteDrained
          /\ fpc \in {"burning", "joining"} => handle \in {"held", "joined"}

\* The polling view has joined the worker on Complete(Ok) and has drained,
\* in the same loop, a Line of Writer output that followed the Complete.
C31_Witness ==
    /\ mode = "tui"
    /\ fpc = "burning"
    /\ handle = "joined"
    /\ \E i \in CompleteAt : \E j \in LineAt : i < j /\ j <= nrecv

C33_SelectedInRange ==
    /\ last.op # "prev_panic"
    /\ last.op \in {"next", "prev", "remove"} =>
          /\ last.index # USizeMax
          /\ last.pre # << >> => last.index < Len(last.pre)

====
